---- MODULE Spec2Model ----
(***************************************************************************)
(* Multi-provider AI call orchestration of tars-pc-agent                   *)
(* (src/tars-pc-agent/src/shared/tarsClient.js): TarsClient.callModel,     *)
(* ProviderManager.callWithFallback / isProviderHealthy /                  *)
(* updateProviderHealth / startHealthChecks and AIProvider.call.           *)
(*                                                                         *)
(* JavaScript runs one callback at a time, so every action below is the    *)
(* code between two awaits.  The clock `now` is Date.now() counted in      *)
(* minutes; a measured response time (Date.now() - startTime) is in        *)
(* milliseconds.                                                           *)
(***************************************************************************)
EXTENDS Integers, Sequences, FiniteSets, TLC

VARIABLES
    providers,          \* this.providers: the keys of the registered AIProvider objects
    primaryProvider,    \* this.primaryProvider
    fallbackProviders,  \* this.fallbackProviders
    providerHealth,     \* this.providerHealth: key -> health record
    now,                \* Date.now(), in minutes
    call,               \* the callModel invocations: slot -> position and locals
    probe,              \* the setInterval callback of startHealthChecks: position and locals
    nextProbe,          \* the time at which the interval timer fires next
    lastUpdate,         \* history: the last updateProviderHealth call and the record it found
    excludedSince,      \* history: key -> the time since which the key is not eligible
    statusResult,       \* what getProviderStatus returned last, while no outcome was
                        \* recorded since
    recorded            \* history: key -> the outcomes handed to updateProviderHealth:
                        \* the failures since the last success, and the last outcome

vars == <<providers, primaryProvider, fallbackProviders, providerHealth, now,
          call, probe, nextProbe, lastUpdate, excludedSince, statusResult, recorded>>

----------------------------------------------------------------------------
(* Bounds of the model *)

\* Date.now() when the ProviderManager is constructed
StartTime == 8
\* how far the clock runs after construction
Horizon == 6

(* Constants of the program *)

\* JavaScript null / undefined of a numeric field
null == -1
\* maxErrorCount, tarsClient.js:158
maxErrorCount == 5
\* healthCheckTimeout = 5 * 60 * 1000 ms, tarsClient.js:159
healthCheckTimeout == 5
\* setInterval(..., 2 * 60 * 1000), tarsClient.js:196
ProbeInterval == 2
\* axios timeout: 30000 ms; a call spans at most one tick of the minute clock
CallTimeout == 1

MaxTime == StartTime + Horizon

\* the feature modules that call callModel, each awaiting one invocation at a time
Callers == {"module"}

\* provider keys that occur in configurations; "gamma" is configured with enabled = false
Keys == {"alpha", "beta", "gamma"}
\* Object.entries order of config.providers.models
ModelOrder == <<"alpha", "beta", "gamma">>

\* the configurations the ProviderManager is constructed with
Configs ==
    { [enabled |-> {"alpha", "beta"}, primary |-> "alpha", fallback |-> <<"beta">>],
      [enabled |-> {"alpha"},         primary |-> "alpha", fallback |-> <<>>],
      [enabled |-> {"alpha"},         primary |-> "gamma", fallback |-> <<"alpha", "alpha">>] }

\* what the upstream does with one HTTP request
Outcomes == {"ok", "error", "malformed"}

\* the values Date.now() - startTime can take, in ms, for a call started in minute
\* `start` that settles in minute t: 0 only when both readings are the same instant
Measured(start, t) == IF t = start THEN {0, 120} ELSE {120}

\* the model argument of callModel: 'auto' (analyzeContent, testConnection) or a name
\* that is also a provider key
ModelHints == {"auto", "beta"}

----------------------------------------------------------------------------
(* AIProvider *)

\* config.name of a provider
ProviderName(key) == <<"name", key>>

\* the Error thrown by AIProvider.call's catch block
ProviderError(key, outcome) ==
    ProviderName(key) \o <<" API Error: ", outcome>>

\* lastError before any attempt failed
NoError == <<>>

\* the object AIProvider.call returns on success
ProviderReply(key) ==
    [text |-> <<"content", key>>, total_tokens |-> 3, provider |-> key]

\* mutant: a completed HTTP call returns, whatever its body
CallReturnsCompleted(outcome) == outcome # "error"

\* AIProvider.call: does the request with this outcome return (TRUE) or throw (FALSE)
CallReturns(outcome) == outcome = "ok"

----------------------------------------------------------------------------
(* ProviderManager: health records *)

InitialHealth ==
    [status |-> "unknown", lastCheck |-> null, responseTime |-> null, errorCount |-> 0]

\* `{}`: the record updateProviderHealth starts from for a key without one
EmptyHealth ==
    [status |-> "", lastCheck |-> null, responseTime |-> null, errorCount |-> null]

\* mutant: the staleness clause left out
isProviderHealthyNoStale(health, t, providerKey) ==
    IF providerKey \notin DOMAIN health THEN FALSE
    ELSE LET h == health[providerKey]
         IN  \/ h.status = "healthy"
             \/ (h.status = "unknown" /\ h.errorCount < maxErrorCount)

\* mutant: the staleness test written >= instead of >
isProviderHealthyOffByOne(health, t, providerKey) ==
    IF providerKey \notin DOMAIN health THEN FALSE
    ELSE LET h == health[providerKey]
             last == IF h.lastCheck = null THEN 0 ELSE h.lastCheck
         IN  \/ h.status = "healthy"
             \/ (h.status = "unknown" /\ h.errorCount < maxErrorCount)
             \/ (t - last) >= healthCheckTimeout

\* mutant: a provider with status error stays eligible below the error-count ceiling
isProviderHealthyCeiling(health, t, providerKey) ==
    IF providerKey \notin DOMAIN health THEN FALSE
    ELSE LET h == health[providerKey]
             last == IF h.lastCheck = null THEN 0 ELSE h.lastCheck
         IN  \/ h.status = "healthy"
             \/ (h.status \in {"unknown", "error"} /\ h.errorCount < maxErrorCount)
             \/ (t - last) > healthCheckTimeout

isProviderHealthyAt(health, t, providerKey) ==
    IF providerKey \notin DOMAIN health THEN FALSE
    ELSE LET h == health[providerKey]
             last == IF h.lastCheck = null THEN 0 ELSE h.lastCheck
         IN  \/ h.status = "healthy"
             \/ (h.status = "unknown" /\ h.errorCount < maxErrorCount)
             \/ (t - last) > healthCheckTimeout

isProviderHealthy(providerKey) == isProviderHealthyAt(providerHealth, now, providerKey)

\* mutant: a success does not reset errorCount
updateProviderHealthNoReset(health, t, providerKey, status, responseTime) ==
    LET old == IF providerKey \in DOMAIN health THEN health[providerKey] ELSE EmptyHealth
        rt  == IF responseTime # null /\ responseTime # 0 THEN responseTime
               ELSE old.responseTime
        ec  == IF status = "error"
                 THEN (IF old.errorCount = null THEN 0 ELSE old.errorCount) + 1
               ELSE old.errorCount
        new == [status |-> status, lastCheck |-> t, responseTime |-> rt, errorCount |-> ec]
    IN  [k \in (DOMAIN health) \cup {providerKey} |->
            IF k = providerKey THEN new ELSE health[k]]

\* mutant: the failure is counted on a fresh record, not on the stored one
updateProviderHealthStale(health, t, providerKey, status, responseTime) ==
    LET old == IF providerKey \in DOMAIN health THEN health[providerKey] ELSE EmptyHealth
        rt  == IF responseTime # null /\ responseTime # 0 THEN responseTime
               ELSE old.responseTime
        ec  == IF status = "error" THEN InitialHealth.errorCount + 1
               ELSE IF status = "healthy" THEN 0
               ELSE old.errorCount
        new == [status |-> status, lastCheck |-> t, responseTime |-> rt, errorCount |-> ec]
    IN  [k \in (DOMAIN health) \cup {providerKey} |->
            IF k = providerKey THEN new ELSE health[k]]

\* mutant: a failure leaves the status as it was
updateProviderHealthKeepStatus(health, t, providerKey, status, responseTime) ==
    LET old == IF providerKey \in DOMAIN health THEN health[providerKey] ELSE EmptyHealth
        rt  == IF responseTime # null /\ responseTime # 0 THEN responseTime
               ELSE old.responseTime
        ec  == IF status = "error"
                 THEN (IF old.errorCount = null THEN 0 ELSE old.errorCount) + 1
               ELSE IF status = "healthy" THEN 0
               ELSE old.errorCount
        new == [status |-> IF status = "error" THEN old.status ELSE status,
                lastCheck |-> t, responseTime |-> rt, errorCount |-> ec]
    IN  [k \in (DOMAIN health) \cup {providerKey} |->
            IF k = providerKey THEN new ELSE health[k]]

\* mutant: the map is rebuilt with the updated record only
updateProviderHealthOnlyKey(health, t, providerKey, status, responseTime) ==
    LET old == IF providerKey \in DOMAIN health THEN health[providerKey] ELSE EmptyHealth
        rt  == IF responseTime # null /\ responseTime # 0 THEN responseTime
               ELSE old.responseTime
        ec  == IF status = "error"
                 THEN (IF old.errorCount = null THEN 0 ELSE old.errorCount) + 1
               ELSE IF status = "healthy" THEN 0
               ELSE old.errorCount
    IN  [k \in {providerKey} |->
            [status |-> status, lastCheck |-> t, responseTime |-> rt, errorCount |-> ec]]

\* mutant: lastCheck is written to every record, not only to providerKey's
updateProviderHealthAllChecked(health, t, providerKey, status, responseTime) ==
    LET old == IF providerKey \in DOMAIN health THEN health[providerKey] ELSE EmptyHealth
        rt  == IF responseTime # null /\ responseTime # 0 THEN responseTime
               ELSE old.responseTime
        ec  == IF status = "error"
                 THEN (IF old.errorCount = null THEN 0 ELSE old.errorCount) + 1
               ELSE IF status = "healthy" THEN 0
               ELSE old.errorCount
        new == [status |-> status, lastCheck |-> t, responseTime |-> rt, errorCount |-> ec]
    IN  [k \in (DOMAIN health) \cup {providerKey} |->
            IF k = providerKey THEN new ELSE [health[k] EXCEPT !.lastCheck = t]]

\* updateProviderHealth(providerKey, status, responseTime = null) at time t
updateProviderHealth(health, t, providerKey, status, responseTime) ==
    LET old == IF providerKey \in DOMAIN health THEN health[providerKey] ELSE EmptyHealth
        rt  == IF responseTime # null /\ responseTime # 0 THEN responseTime
               ELSE old.responseTime
        ec  == IF status = "error"
                 THEN (IF old.errorCount = null THEN 0 ELSE old.errorCount) + 1
               ELSE IF status = "healthy" THEN 0
               ELSE old.errorCount
        new == [status |-> status, lastCheck |-> t, responseTime |-> rt, errorCount |-> ec]
    IN  [k \in (DOMAIN health) \cup {providerKey} |->
            IF k = providerKey THEN new ELSE health[k]]

----------------------------------------------------------------------------
(* ProviderManager.getProviderStatus *)

\* mutant: the snapshot reports the age of the last check instead of its time
getProviderStatusAge(health) ==
    [key \in DOMAIN health |->
        [name |-> IF key \in providers THEN ProviderName(key) ELSE <<key>>,
         status |-> health[key].status,
         responseTime |-> health[key].responseTime,
         errorCount |-> health[key].errorCount,
         lastCheck |-> IF health[key].lastCheck = null THEN null
                       ELSE now - health[key].lastCheck,
         costPerToken |-> 0]]

\* the object getProviderStatus builds from the records
getProviderStatus(health) ==
    [key \in DOMAIN health |->
        [name |-> IF key \in providers THEN ProviderName(key) ELSE <<key>>,
         status |-> health[key].status,
         responseTime |-> health[key].responseTime,
         errorCount |-> health[key].errorCount,
         lastCheck |-> health[key].lastCheck,
         costPerToken |-> 0]]

\* no getProviderStatus result since the last recorded outcome
NoStatus == [read |-> FALSE, value |-> getProviderStatus([k \in {} |-> InitialHealth])]

\* a UI or telemetry consumer calls TarsClient.getProviderStatus
GetProviderStatus ==
    /\ statusResult' = [read |-> TRUE, value |-> getProviderStatus(providerHealth)]
    /\ UNCHANGED <<providers, primaryProvider, fallbackProviders, providerHealth, now,
                   call, probe, nextProbe, lastUpdate, excludedSince, recorded>>

----------------------------------------------------------------------------
(* ProviderManager.callWithFallback and TarsClient.callModel *)

\* const providers = [this.primaryProvider, ...this.fallbackProviders]
providersList == <<primaryProvider>> \o fallbackProviders

\* no value: the outcome of an invocation that has not finished
NoOutcome ==
    [kind |-> "none", text |-> <<>>, total_tokens |-> 0, error |-> FALSE,
     provider |-> "", responseTime |-> null]

\* mutant: the result is labelled with the primary provider, not with the one that answered
SuccessResultPrimary(key, responseTime) ==
    [kind |-> "return", text |-> ProviderReply(key).text,
     total_tokens |-> ProviderReply(key).total_tokens, error |-> FALSE,
     provider |-> primaryProvider, responseTime |-> responseTime]

\* return { ...result, provider: providerKey, responseTime }
SuccessResult(key, responseTime) ==
    [kind |-> "return", text |-> ProviderReply(key).text,
     total_tokens |-> ProviderReply(key).total_tokens, error |-> FALSE,
     provider |-> key, responseTime |-> responseTime]

\* mutant: the message of lastError is never read
AggregateErrorUnknown(lastError) ==
    <<"All providers failed. Last error: ", "Unknown error">>

\* `All providers failed. Last error: ${lastError?.message || 'Unknown error'}`
AggregateError(lastError) ==
    <<"All providers failed. Last error: ">>
        \o (IF lastError = NoError THEN <<"Unknown error">> ELSE lastError)

\* throw new Error(message)
Throw(message) ==
    [kind |-> "throw", text |-> message, total_tokens |-> 0, error |-> FALSE,
     provider |-> "", responseTime |-> null]

\* mutant: callModel without its catch block
callModelNoCatch(exec) == exec

\* TarsClient.callModel: the try/catch around callWithFallback
callModel(exec) ==
    IF exec.kind = "throw"
      THEN [kind |-> "return",
            text |-> <<"Error: ">> \o exec.text \o <<". Please check your API configuration.">>,
            total_tokens |-> 0, error |-> TRUE, provider |-> "none", responseTime |-> null]
      ELSE exec

\* mutant: only unregistered candidates are skipped
SkippedUnregisteredOnly(health, t, providerKey) == providerKey \notin providers

\* mutant: a candidate without a registered provider object is not skipped
SkippedIneligibleOnly(health, t, providerKey) ==
    providerKey \in DOMAIN health /\ ~isProviderHealthyAt(health, t, providerKey)

\* the loop's skip test: if (!provider || !this.isProviderHealthy(providerKey)) continue
Skipped(health, t, providerKey) ==
    providerKey \notin providers \/ ~isProviderHealthyAt(health, t, providerKey)

\* mutant: the candidates are ranked by recorded response time, fastest first
NextCandidateFastest(health, t, from) ==
    LET tried == {j \in 1..Len(providersList) : ~Skipped(health, t, providersList[j])}
        rank(j) == IF health[providersList[j]].responseTime = null THEN 100000 + j
                   ELSE 10 * health[providersList[j]].responseTime + j
    IN  IF tried = {} THEN 0
        ELSE CHOOSE j \in tried : \A i \in tried : rank(j) <= rank(i)

\* mutant: after a failure the loop starts over from the head of the list
NextCandidateRestart(health, t, from) ==
    LET tried == {j \in 1..Len(providersList) : ~Skipped(health, t, providersList[j])}
    IN  IF tried = {} THEN 0
        ELSE CHOOSE j \in tried : \A i \in tried : j <= i

\* the first position at or after `from` that the for loop does not skip; 0 when it
\* runs off the end of the list
NextCandidate(health, t, from) ==
    LET tried == {j \in from..Len(providersList) : ~Skipped(health, t, providersList[j])}
    IN  IF tried = {} THEN 0
        ELSE CHOOSE j \in tried : \A i \in tried : j <= i

IdleCall ==
    [pc |-> "idle", preferredModel |-> "", idx |-> 0, startTime |-> null,
     lastError |-> NoError, attempts |-> <<>>, exec |-> NoOutcome, result |-> NoOutcome]

\* mutant: the remaining candidates are tested against the health records as they
\* were before the failure was recorded
ContinueLoopStale(options, health, from, lastError, attempts) ==
    LET j == NextCandidate(providerHealth, now, from)
    IN  IF j # 0
          THEN [pc |-> "calling", preferredModel |-> options, idx |-> j, startTime |-> now,
                lastError |-> lastError,
                attempts |-> attempts, exec |-> NoOutcome, result |-> NoOutcome]
          ELSE [pc |-> "done", preferredModel |-> options, idx |-> 0, startTime |-> null,
                lastError |-> lastError,
                attempts |-> attempts, exec |-> Throw(AggregateError(lastError)),
                result |-> callModel(Throw(AggregateError(lastError)))]

\* mutant: the provider named by preferredModel is tried first when it is eligible
ContinueLoopPreferred(options, health, from, lastError, attempts) ==
    LET hinted == {j \in from..Len(providersList) :
                      providersList[j] = options /\ ~Skipped(health, now, providersList[j])}
        j == IF hinted # {} THEN CHOOSE i \in hinted : TRUE
             ELSE NextCandidate(health, now, from)
    IN  IF j # 0
          THEN [pc |-> "calling", preferredModel |-> options, idx |-> j, startTime |-> now,
                lastError |-> lastError,
                attempts |-> attempts, exec |-> NoOutcome, result |-> NoOutcome]
          ELSE [pc |-> "done", preferredModel |-> options, idx |-> 0, startTime |-> null,
                lastError |-> lastError,
                attempts |-> attempts, exec |-> Throw(AggregateError(lastError)),
                result |-> callModel(Throw(AggregateError(lastError)))]

\* the for loop from position `from` up to its next await (provider.call) or to the
\* throw after the loop, which callModel catches
\* options = { ...options, preferredModel: model } is carried along and not read
ContinueLoop(options, health, from, lastError, attempts) ==
    LET j == NextCandidate(health, now, from)
    IN  IF j # 0
          THEN [pc |-> "calling", preferredModel |-> options, idx |-> j, startTime |-> now,
                lastError |-> lastError,
                attempts |-> attempts, exec |-> NoOutcome, result |-> NoOutcome]
          ELSE [pc |-> "done", preferredModel |-> options, idx |-> 0, startTime |-> null,
                lastError |-> lastError,
                attempts |-> attempts, exec |-> Throw(AggregateError(lastError)),
                result |-> callModel(Throw(AggregateError(lastError)))]

\* mutant: a success does not leave the loop; the next candidates are tried as well
ReturnResultContinue(cr, health, key, responseTime, attempts) ==
    ContinueLoop(cr.preferredModel, health, cr.idx + 1, cr.lastError, attempts)

\* lines 137-142: the invocation `cr` returns the result of `key`
ReturnResult(cr, health, key, responseTime, attempts) ==
    [pc |-> "done", preferredModel |-> cr.preferredModel, idx |-> cr.idx,
     startTime |-> cr.startTime, lastError |-> cr.lastError, attempts |-> attempts,
     exec |-> SuccessResult(key, responseTime),
     result |-> callModel(SuccessResult(key, responseTime))]

\* history: the time since which `key` has not been eligible, in the state (health, t)
Since(health, t, key) ==
    IF isProviderHealthyAt(health, t, key) THEN null
    ELSE IF excludedSince[key] # null THEN excludedSince[key]
    ELSE t

\* history: one more outcome handed to updateProviderHealth for `key`
Record(key, status) ==
    [recorded EXCEPT ![key] =
        [failures |-> IF status = "error" THEN @.failures + 1 ELSE 0, last |-> status]]

\* history: the arguments of an updateProviderHealth call and the record it found
Update(key, status, responseTime) ==
    [key |-> key, status |-> status, responseTime |-> responseTime,
     before |-> providerHealth[key], at |-> now]

\* history: one attempt of an invocation, with what was recorded for it
Attempt(key, outcome, health) ==
    [key |-> key, outcome |-> outcome, status |-> health[key].status,
     errorCount |-> health[key].errorCount,
     prevErrorCount |-> providerHealth[key].errorCount]

\* mutant: only the first error is kept
RetainFirst(lastError, error) == IF lastError = NoError THEN error ELSE lastError

\* lastError = error (line 144)
Retain(lastError, error) == error

\* mutant: success is reported whenever callModel returned
testConnectionAlwaysOk(res) ==
    [kind |-> "return", success |-> TRUE, message |-> res.text, provider |-> res.provider]

\* TarsClient.testConnection, given how its one callModel invocation settled
testConnection(res) ==
    IF res.kind = "throw"
      THEN [kind |-> "return", success |-> FALSE, message |-> res.text, provider |-> "none"]
      ELSE [kind |-> "return", success |-> ~res.error, message |-> res.text,
            provider |-> res.provider]

\* a feature module calls callModel: the loop runs up to the first provider.call
Invoke(c, model) ==
    /\ call[c].pc = "idle"
    /\ call' = [call EXCEPT ![c] = ContinueLoop(model, providerHealth, 1, NoError, <<>>)]
    /\ UNCHANGED <<providers, primaryProvider, fallbackProviders, providerHealth, now,
                   probe, nextProbe, lastUpdate, excludedSince, statusResult,
                   recorded>>

\* the awaited provider.call settles: lines 134-142 on success, 143-148 and the
\* next loop iterations on failure
CallCompletes(c, outcome, responseTime) ==
    /\ call[c].pc = "calling"
    /\ responseTime \in Measured(call[c].startTime, now)
    /\ LET key == providersList[call[c].idx]
       IN  IF CallReturns(outcome)
             THEN /\ providerHealth' =
                        updateProviderHealth(providerHealth, now, key, "healthy", responseTime)
                  /\ lastUpdate' = Update(key, "healthy", responseTime)
                  /\ recorded' = Record(key, "healthy")
                  /\ call' = [call EXCEPT ![c] =
                        ReturnResult(call[c], providerHealth', key, responseTime,
                                     Append(call[c].attempts,
                                            Attempt(key, outcome, providerHealth')))]
             ELSE /\ providerHealth' =
                        updateProviderHealth(providerHealth, now, key, "error", null)
                  /\ lastUpdate' = Update(key, "error", null)
                  /\ recorded' = Record(key, "error")
                  /\ call' = [call EXCEPT ![c] =
                        ContinueLoop(call[c].preferredModel, providerHealth',
                                     call[c].idx + 1,
                                     Retain(call[c].lastError, ProviderError(key, outcome)),
                                     Append(call[c].attempts,
                                            Attempt(key, outcome, providerHealth')))]
    /\ excludedSince' = [k \in providers |-> Since(providerHealth', now, k)]
    /\ statusResult' = NoStatus
    /\ UNCHANGED <<providers, primaryProvider, fallbackProviders, now, probe, nextProbe>>

\* a callModel promise has settled and its awaiting caller has not run yet; the
\* caller's continuation runs before any timer or I/O callback
Settled == \E c \in DOMAIN call : call[c].pc = "done"

\* the feature module has taken the result; the slot is free for the next invocation
Return(c) ==
    /\ call[c].pc = "done"
    /\ call' = [call EXCEPT ![c] = IdleCall]
    /\ UNCHANGED <<providers, primaryProvider, fallbackProviders, providerHealth, now,
                   probe, nextProbe, lastUpdate, excludedSince, statusResult,
                   recorded>>

----------------------------------------------------------------------------
(* ProviderManager.startHealthChecks *)

\* mutant: only the providers that are eligible are probed
RegisteredOrderEligible ==
    SelectSeq(ModelOrder, LAMBDA k : k \in providers /\ isProviderHealthy(k))

\* this.providers.entries(): the registered keys in insertion order
RegisteredOrder == SelectSeq(ModelOrder, LAMBDA k : k \in providers)

IdleProbe == [pc |-> "idle", queue |-> <<>>, startTime |-> null]

\* the for loop of the interval callback, at its await of healthCheck for Head(queue)
Probing(queue) ==
    IF queue = <<>> THEN IdleProbe
    ELSE [pc |-> "probing", queue |-> queue, startTime |-> now]

\* the interval timer fires: the callback starts and awaits the first healthCheck
ProbeTimerFires ==
    /\ ~Settled
    /\ now >= nextProbe
    /\ probe.pc = "idle"
    /\ probe' = Probing(RegisteredOrder)
    /\ nextProbe' = nextProbe + ProbeInterval
    /\ UNCHANGED <<providers, primaryProvider, fallbackProviders, providerHealth, now,
                   call, lastUpdate, excludedSince, statusResult, recorded>>

\* the awaited healthCheck settles: lines 191/193, then the next entry
ProbeCompletes(outcome) ==
    /\ ~Settled
    /\ probe.pc = "probing"
    /\ LET key == Head(probe.queue)
           status == IF CallReturns(outcome) THEN "healthy" ELSE "error"
       IN  /\ providerHealth' = updateProviderHealth(providerHealth, now, key, status, null)
           /\ lastUpdate' = Update(key, status, null)
           /\ recorded' = Record(key, status)
    /\ probe' = Probing(Tail(probe.queue))
    /\ excludedSince' = [k \in providers |-> Since(providerHealth', now, k)]
    /\ statusResult' = NoStatus
    /\ UNCHANGED <<providers, primaryProvider, fallbackProviders, now, call, nextProbe>>

----------------------------------------------------------------------------
(* the clock *)

\* a minute passes: not past a due timer, not past the timeout of a request in flight
Tick ==
    /\ ~Settled
    /\ now < MaxTime
    /\ now < nextProbe
    /\ \A c \in DOMAIN call : call[c].pc = "calling" => now - call[c].startTime < CallTimeout
    /\ probe.pc = "probing" => now - probe.startTime < CallTimeout
    /\ now' = now + 1
    /\ excludedSince' = [k \in providers |-> Since(providerHealth, now + 1, k)]
    /\ UNCHANGED <<providers, primaryProvider, fallbackProviders, providerHealth,
                   call, probe, nextProbe, lastUpdate, statusResult, recorded>>

----------------------------------------------------------------------------
(* the system *)

NoUpdate ==
    [key |-> "", status |-> "", responseTime |-> null, before |-> InitialHealth,
     at |-> null]

\* new ProviderManager(config), for a config of `configs`: initializeProviders, then
\* startHealthChecks
InitOf(configs) ==
    \E cfg \in configs :
        /\ providers = cfg.enabled
        /\ primaryProvider = cfg.primary
        /\ fallbackProviders = cfg.fallback
        /\ providerHealth = [k \in cfg.enabled |-> InitialHealth]
        /\ now = StartTime
        /\ call = [c \in Callers |-> IdleCall]
        /\ probe = IdleProbe
        /\ nextProbe = StartTime + ProbeInterval
        /\ lastUpdate = NoUpdate
        /\ excludedSince = [k \in cfg.enabled |-> null]
        /\ statusResult = NoStatus
        /\ recorded = [k \in cfg.enabled |-> [failures |-> 0, last |-> "unknown"]]

Init == InitOf(Configs)

\* every step but the start of an invocation
Steps ==
    \/ \E c \in DOMAIN call : \E outcome \in Outcomes : \E ms \in {0, 120} :
            CallCompletes(c, outcome, ms)
    \/ \E c \in DOMAIN call : Return(c)
    \/ ProbeTimerFires
    \/ \E outcome \in Outcomes : ProbeCompletes(outcome)
    \/ GetProviderStatus
    \/ Tick

\* the invocations pass 'auto', as analyzeContent and testConnection do
Next ==
    \/ \E c \in DOMAIN call : Invoke(c, "auto")
    \/ Steps

Spec == Init /\ [][Next]_vars

\* the invocations pass any model hint
NextHints ==
    \/ \E c \in DOMAIN call : \E model \in ModelHints : Invoke(c, model)
    \/ Steps

SpecHints == Init /\ [][NextHints]_vars

\* a configuration whose fallback list names the primary provider again
RetryConfigs ==
    { [enabled |-> {"alpha", "beta"}, primary |-> "alpha", fallback |-> <<"beta", "alpha">>] }

InitRetry == InitOf(RetryConfigs)

SpecRetry == InitRetry /\ [][Next]_vars

\* two feature modules awaiting callModel at the same time
ConcurrentCallers == {"module", "worker"}

\* a registry of alpha and beta, constructed one probe interval before the end of
\* the clock, serving two concurrent callers
InitConcurrent ==
    /\ providers = {"alpha", "beta"}
    /\ primaryProvider = "alpha"
    /\ fallbackProviders = <<"beta">>
    /\ providerHealth = [k \in providers |-> InitialHealth]
    /\ now = MaxTime - ProbeInterval
    /\ call = [c \in ConcurrentCallers |-> IdleCall]
    /\ probe = IdleProbe
    /\ nextProbe = MaxTime
    /\ lastUpdate = NoUpdate
    /\ excludedSince = [k \in providers |-> null]
    /\ statusResult = NoStatus
    /\ recorded = [k \in providers |-> [failures |-> 0, last |-> "unknown"]]

SpecConcurrent == InitConcurrent /\ [][Next]_vars

\* every provider call settles: axios resolves, rejects or times out (line 261)
CallsSettle == WF_vars(\E c \in DOMAIN call : \E outcome \in Outcomes : \E ms \in {0, 120} :
                            CallCompletes(c, outcome, ms))

SpecLive == Init /\ [][Next]_vars /\ CallsSettle

----------------------------------------------------------------------------
(* Health records of a ProviderManager that has been running: the inputs of      *)
(* isProviderHealthy and updateProviderHealth drawn from a bounded set of records *)

HealthRecords ==
    [status : {"unknown", "healthy", "error"},
     lastCheck : {null} \cup ((StartTime - healthCheckTimeout - 1)..StartTime),
     responseTime : {null},
     errorCount : {0, 1, maxErrorCount - 1, maxErrorCount, maxErrorCount + 1}]

InitHealth ==
    /\ providers = {"alpha"}
    /\ primaryProvider = "alpha"
    /\ fallbackProviders = <<>>
    /\ providerHealth \in [{"alpha"} -> HealthRecords]
    /\ now = StartTime
    /\ call = [c \in Callers |-> IdleCall]
    /\ probe = IdleProbe
    /\ nextProbe = StartTime + ProbeInterval
    /\ lastUpdate = NoUpdate
    /\ excludedSince = [k \in {"alpha"} |->
            IF isProviderHealthyAt(providerHealth, StartTime, k) THEN null ELSE StartTime]
    /\ statusResult = NoStatus
    /\ recorded = [k \in {"alpha"} |->
            [failures |-> providerHealth[k].errorCount, last |-> providerHealth[k].status]]

SpecHealth == InitHealth /\ [][Next]_vars

----------------------------------------------------------------------------
(* Properties *)

\* the invocations that have finished
Finished == {c \in DOMAIN call : call[c].pc = "done"}

\* C1: Failover. An invocation whose candidates before B fail and whose call to B
\* succeeds returns B's reply labelled provider = B with no error flag; it has
\* recorded exactly one failure (status error, errorCount raised by 1: to 1 when
\* it was 0) for each earlier attempted candidate, each attempted once, and one
\* success (status healthy, errorCount 0) for B.  An invocation whose last
\* attempt succeeded returns.
Failover ==
    \A c \in Finished :
        LET a == call[c].attempts
            n == Len(a)
        IN  /\ (n >= 1 /\ a[n].outcome = "ok") => call[c].exec.kind = "return"
            /\ call[c].exec.kind = "return" =>
                  /\ n >= 1
                  /\ a[n].outcome = "ok"
                  /\ a[n].status = "healthy" /\ a[n].errorCount = 0
                  /\ call[c].result.kind = "return"
                  /\ call[c].result.provider = a[n].key
                  /\ call[c].result.text = <<"content", a[n].key>>
                  /\ call[c].result.error = FALSE
                  /\ \A i \in 1..(n - 1) :
                        /\ a[i].outcome # "ok"
                        /\ a[i].status = "error"
                        /\ a[i].errorCount = a[i].prevErrorCount + 1
                        /\ \A j \in 1..n : j # i => a[j].key # a[i].key

\* C1 witness: primary alpha failed, fallback beta answered, and the records show it
FailoverWitness ==
    \E c \in Finished :
        /\ Len(call[c].attempts) = 2
        /\ call[c].attempts[1].key = "alpha" /\ call[c].attempts[1].outcome = "error"
        /\ call[c].attempts[2].key = "beta" /\ call[c].attempts[2].outcome = "ok"
        /\ call[c].result.provider = "beta" /\ ~call[c].result.error
        /\ providerHealth["alpha"].status = "error"
        /\ providerHealth["alpha"].errorCount = 1
        /\ providerHealth["beta"].status = "healthy"
        /\ providerHealth["beta"].errorCount = 0

\* C2: callModel never throws: every finished invocation completed normally, and
\* when callWithFallback threw (every provider failed or none was attempted) the
\* result is error = true, provider = 'none', usage.total_tokens = 0 with a text.
FacadeNeverThrows ==
    \A c \in Finished :
        /\ call[c].result.kind = "return"
        /\ call[c].exec.kind = "throw" =>
              /\ call[c].result.error = TRUE
              /\ call[c].result.provider = "none"
              /\ call[c].result.total_tokens = 0
              /\ call[c].result.text # <<>>

\* C2 witness: a total failure after two failed attempts has been returned
FacadeNeverThrowsWitness ==
    \E c \in Finished :
        /\ call[c].exec.kind = "throw"
        /\ Len(call[c].attempts) = 2
        /\ call[c].result.error

\* C3 (the claim as stated): an invocation whose list names a registered provider
\* always issues at least one call, also when no provider is eligible.
AttemptsWhenNoneEligible ==
    \A c \in Finished :
        (\E i \in 1..Len(providersList) : providersList[i] \in providers)
            => call[c].attempts # <<>>

\* C4 (the claim as stated, as a deadline): a provider is never excluded for longer
\* than the cool-down: once healthCheckTimeout has passed since it became
\* ineligible it has been eligible again.
RecoversAfterCooldown ==
    \A k \in providers :
        excludedSince[k] # null => now - excludedSince[k] <= healthCheckTimeout

\* C5: Staleness recovery. A record with status error and errorCount >= 5 whose
\* lastCheck is more than 5 minutes old is eligible.
StalenessRecovery ==
    \A k \in DOMAIN providerHealth :
        (/\ providerHealth[k].status = "error"
         /\ providerHealth[k].errorCount >= 5
         /\ providerHealth[k].lastCheck # null
         /\ now - providerHealth[k].lastCheck > 5)
            => isProviderHealthy(k)

\* C5 witness: a record in error at the ceiling was not eligible, the clock moved
\* past the window with no update of the record, and it is eligible
StalenessRecoveryWitness ==
    /\ providerHealth["alpha"].status = "error"
    /\ providerHealth["alpha"].errorCount >= 5
    /\ providerHealth["alpha"].lastCheck = StartTime - healthCheckTimeout
    /\ now = StartTime + 1
    /\ lastUpdate = NoUpdate
    /\ isProviderHealthy("alpha")

\* C6: Eligibility rule. isProviderHealthy is true exactly when the key has a
\* record and (a) status is healthy, or (b) status is unknown and errorCount < 5,
\* or (c) the last check (0 for a never-checked record) is more than 5 minutes old.
EligibilityRule ==
    \A k \in Keys :
        isProviderHealthy(k) <=>
            /\ k \in DOMAIN providerHealth
            /\ \/ providerHealth[k].status = "healthy"
               \/ (providerHealth[k].status = "unknown" /\ providerHealth[k].errorCount < 5)
               \/ now - (IF providerHealth[k].lastCheck = null THEN 0
                         ELSE providerHealth[k].lastCheck) > 5

\* C6 witness: a record in error checked exactly 5 minutes ago is not eligible,
\* and a key without a record is not eligible
EligibilityRuleWitness ==
    /\ providerHealth["alpha"].status = "error"
    /\ now - providerHealth["alpha"].lastCheck = 5
    /\ ~isProviderHealthy("alpha")
    /\ ~isProviderHealthy("beta")

\* C7: when every attempted candidate failed, callWithFallback throws the
\* aggregate error that carries the name and the message of the last provider
\* that was tried.
AggregateNamesLast ==
    \A c \in Finished :
        (call[c].exec.kind = "throw" /\ call[c].attempts # <<>>) =>
            LET last == call[c].attempts[Len(call[c].attempts)]
            IN  call[c].exec.text =
                    <<"All providers failed. Last error: ",
                      "name", last.key, " API Error: ", last.outcome>>

\* C7 witness: alpha failed with an HTTP error, then beta with a malformed body
AggregateNamesLastWitness ==
    \E c \in Finished :
        /\ call[c].exec.kind = "throw"
        /\ Len(call[c].attempts) = 2
        /\ call[c].attempts[1].key = "alpha" /\ call[c].attempts[1].outcome = "error"
        /\ call[c].attempts[2].key = "beta" /\ call[c].attempts[2].outcome = "malformed"

\* C8: a failure with no provider attempted and a failure after attempts never
\* have the same value: the first is always the 'Unknown error' aggregate, the
\* second never is (in the thrown error and in callModel's result).
FailuresDistinguishable ==
    \A c \in Finished :
        call[c].exec.kind = "throw" =>
            /\ call[c].attempts = <<>> <=>
                  call[c].exec.text =
                      <<"All providers failed. Last error: ", "Unknown error">>
            /\ call[c].attempts = <<>> <=>
                  call[c].result.text =
                      <<"Error: ", "All providers failed. Last error: ", "Unknown error",
                        ". Please check your API configuration.">>

\* C8 witness: a registered provider exists and the invocation failed without
\* attempting any (after an earlier failure made it ineligible)
FailuresDistinguishableWitness ==
    \E c \in Finished :
        /\ call[c].exec.kind = "throw"
        /\ call[c].attempts = <<>>
        /\ providerHealth["alpha"].status = "error"

\* C9: Error-count reset. After a recorded success (traffic or probe) the
\* provider's errorCount is 0, whatever it was before.
ErrorCountReset ==
    lastUpdate.status = "healthy" =>
        providerHealth[lastUpdate.key].errorCount = 0

\* C9 witness: a success was recorded for a provider whose errorCount was above
\* the ceiling
ErrorCountResetWitness ==
    /\ lastUpdate.status = "healthy"
    /\ lastUpdate.before.errorCount > maxErrorCount

\* C10: No cross-key interference. A step changes at most the record of the key
\* whose outcome it records; every other record keeps all its fields.
NoCrossKeyInterference ==
    [][\A b \in DOMAIN providerHealth :
          providerHealth'[b] # providerHealth[b] => lastUpdate'.key = b]_vars

\* C10 witness: an outcome was recorded for alpha while beta had a record with
\* a check time, a response time and an error status of its own
NoCrossKeyInterferenceWitness ==
    /\ "beta" \in DOMAIN providerHealth
    /\ lastUpdate.key = "alpha"
    /\ providerHealth["alpha"].lastCheck = now
    /\ providerHealth["beta"].status = "error"
    /\ providerHealth["beta"].responseTime # null
    /\ providerHealth["beta"].lastCheck < now

\* C11: Snapshot is read-only and idempotent. What getProviderStatus returned
\* shows every record as it is; a read changes no health record, and it returns
\* data different from the previous read only when an outcome was recorded in
\* between.
SnapshotIdempotent ==
    /\ [](statusResult.read =>
            /\ DOMAIN statusResult.value = DOMAIN providerHealth
            /\ \A k \in DOMAIN providerHealth :
                  /\ statusResult.value[k].status = providerHealth[k].status
                  /\ statusResult.value[k].responseTime = providerHealth[k].responseTime
                  /\ statusResult.value[k].errorCount = providerHealth[k].errorCount
                  /\ statusResult.value[k].lastCheck = providerHealth[k].lastCheck)
    /\ [][(statusResult' # statusResult /\ statusResult'.read) =>
            (providerHealth' = providerHealth /\ ~statusResult.read)]_vars

\* C11 witness: a snapshot of a failed and since probed provider, read after the
\* last recorded outcome and still current a minute later
SnapshotIdempotentWitness ==
    /\ statusResult.read
    /\ statusResult.value["alpha"].status = "error"
    /\ statusResult.value["alpha"].errorCount = 2
    /\ now > statusResult.value["alpha"].lastCheck

\* C12: Registry/health correspondence. In every state the keys with a health
\* record are exactly the registered keys (one record per key); before any outcome
\* is recorded every record is the one created at registration, with status
\* unknown; and no step adds or deletes a record or a registered provider.
RegistryHealthCorrespondence ==
    /\ [](/\ DOMAIN providerHealth = providers
          /\ lastUpdate.key = "" =>
                \A k \in providers :
                    providerHealth[k] = [status |-> "unknown", lastCheck |-> null,
                                         responseTime |-> null, errorCount |-> 0])
    /\ [][/\ DOMAIN providerHealth' = DOMAIN providerHealth
          /\ providers' = providers]_vars

\* C12 witness: both registered providers have been called or probed and the
\* status has been read; the records are still those of alpha and beta
RegistryHealthCorrespondenceWitness ==
    /\ providers = {"alpha", "beta"}
    /\ DOMAIN providerHealth = {"alpha", "beta"}
    /\ providerHealth["alpha"].lastCheck # null
    /\ providerHealth["beta"].lastCheck # null
    /\ probe.pc = "idle"
    /\ statusResult.read

\* C13: Configuration validation.  A registry configured with a primary key or a
\* fallback key that is not among the enabled providers does not start, so in
\* every state that serves traffic (an invocation is under way or has settled) the
\* primary key and every fallback key are registered providers.
ConfigurationValidated ==
    (\E c \in DOMAIN call : call[c].pc # "idle") =>
        /\ primaryProvider \in providers
        /\ \A i \in 1..Len(fallbackProviders) : fallbackProviders[i] \in providers

\* C14: recordOutcome semantics.  The last recorded outcome left its provider's
\* record with: on success status healthy, errorCount 0, lastCheck the time of
\* the update and responseTime the measured response time of the call (for every
\* measured value, 0 ms included); on failure status error, errorCount one more
\* than before, lastCheck the time of the update and responseTime as before.
RecordOutcomeSemantics ==
    lastUpdate.key # "" =>
        LET h == providerHealth[lastUpdate.key]
            before == lastUpdate.before
        IN  /\ h.lastCheck = lastUpdate.at
            /\ lastUpdate.status = "healthy" =>
                   /\ h.status = "healthy"
                   /\ h.errorCount = 0
                   /\ lastUpdate.responseTime # null => h.responseTime = lastUpdate.responseTime
            /\ lastUpdate.status = "error" =>
                   /\ h.status = "error"
                   /\ h.errorCount = before.errorCount + 1
                   /\ h.responseTime = before.responseTime

WithoutHint(cr) == [cr EXCEPT !.preferredModel = "auto"]

\* C15: the model hint is advisory.  Every step of an invocation, whatever hint
\* it passed, leaves the invocation where the same step of an invocation passing
\* 'auto' leaves it (the hint itself apart): the same candidate is called first,
\* a failure moves on to the same next candidate or the same total failure, a
\* success is labelled with the candidate of the configured order, and the
\* health record that is updated is that candidate's.
HintAdvisory ==
    [][\A c \in DOMAIN call :
          /\ (call[c].pc = "idle" /\ call'[c].pc # "idle") =>
                WithoutHint(call'[c]) =
                    WithoutHint(ContinueLoop("auto", providerHealth, 1, NoError, <<>>))
          /\ (call[c].pc = "calling" /\ call'[c] # call[c]) =>
                LET key == providersList[call[c].idx]
                    a == call'[c].attempts[Len(call'[c].attempts)]
                IN  /\ a.key = key
                    /\ lastUpdate'.key = key
                    /\ \A k \in providers \ {key} : providerHealth'[k] = providerHealth[k]
                    /\ IF a.outcome = "ok"
                         THEN /\ call'[c].pc = "done"
                              /\ call'[c].result.provider = key
                         ELSE WithoutHint(call'[c]) =
                                WithoutHint(ContinueLoop("auto", providerHealth',
                                                         call[c].idx + 1,
                                                         ProviderError(key, a.outcome),
                                                         call'[c].attempts))]_vars

\* an invocation hinting at beta was answered by alpha, the first of the order,
\* while beta was registered and healthy
HintAdvisoryWitness ==
    \E c \in Finished :
        /\ call[c].preferredModel = "beta"
        /\ "beta" \in providers
        /\ call[c].exec.kind = "return"
        /\ call[c].result.provider = "alpha"
        /\ Len(call[c].attempts) = 1
        /\ providerHealth["beta"].status = "healthy"

\* C16: the prober does not let one provider block the others.  While a probe
\* round is under way, the probe of every provider of the round has been started:
\* none waits for the probe of another provider to complete.
ProbesNotBlocked ==
    probe.pc = "probing" => Len(probe.queue) <= 1

\* C17: prober rounds.  The interval timer stays armed; each round takes every
\* registered provider, eligible or not; each probe that settles records healthy
\* or error in the probed provider's record (a failure as a normal failure:
\* errorCount one more) with the time of the check, touches no invocation and
\* goes on to the next provider of the round.
ProberRounds ==
    /\ [](/\ now <= nextProbe
          /\ nextProbe <= now + ProbeInterval)
    /\ [][(probe.pc = "idle" /\ probe' # probe) =>
             /\ {probe'.queue[i] : i \in 1..Len(probe'.queue)} = providers
             /\ Len(probe'.queue) = Cardinality(providers)
             /\ nextProbe' = nextProbe + ProbeInterval]_vars
    /\ [][(probe.pc = "probing" /\ probe' # probe) =>
             LET key == Head(probe.queue)
             IN  /\ lastUpdate'.key = key
                 /\ lastUpdate'.at = now
                 /\ providerHealth'[key].status \in {"healthy", "error"}
                 /\ providerHealth'[key].status = lastUpdate'.status
                 /\ providerHealth'[key].lastCheck = now
                 /\ providerHealth'[key].status = "error" =>
                        providerHealth'[key].errorCount = providerHealth[key].errorCount + 1
                 /\ providerHealth'[key].status = "healthy" =>
                        providerHealth'[key].errorCount = 0
                 /\ probe'.queue = Tail(probe.queue)
                 /\ call' = call
                 /\ nextProbe' = nextProbe]_vars

\* in a later round the probe of alpha, which was not eligible, has failed and
\* been recorded, and the round has gone on to beta
ProberRoundsWitness ==
    /\ probe.pc = "probing"
    /\ probe.queue = <<"beta">>
    /\ nextProbe >= StartTime + 3 * ProbeInterval
    /\ lastUpdate.key = "alpha"
    /\ lastUpdate.status = "error"
    /\ lastUpdate.responseTime = null
    /\ lastUpdate.before.status = "error"
    /\ lastUpdate.at - lastUpdate.before.lastCheck <= healthCheckTimeout
    /\ providerHealth["alpha"].errorCount = lastUpdate.before.errorCount + 1

\* C18: testConnection.  For the one callModel invocation it awaits, however it
\* settled, testConnection returns: success = true with the key of the provider
\* that answered when a provider succeeded, success = false with provider 'none'
\* when every attempt failed or none was made.
TestConnectionReports ==
    \A c \in Finished :
        LET t == testConnection(call[c].result)
        IN  /\ t.kind = "return"
            /\ call[c].exec.kind = "return" =>
                   /\ t.success
                   /\ t.provider \in providers
                   /\ t.provider = call[c].attempts[Len(call[c].attempts)].key
            /\ call[c].exec.kind = "throw" =>
                   /\ ~t.success
                   /\ t.provider = "none"

\* after a failure of alpha the invocation was answered by beta
TestConnectionReportsWitness ==
    \E c \in Finished :
        /\ Len(call[c].attempts) = 2
        /\ call[c].attempts[1].outcome # "ok"
        /\ testConnection(call[c].result).success
        /\ testConnection(call[c].result).provider = "beta"

\* C19: short-circuit.  A successful attempt is the last attempt of its
\* invocation: the invocation has returned, its result carries the key of that
\* provider and the elapsed time, and no later candidate was attempted.
ShortCircuit ==
    \A c \in DOMAIN call :
        \A i \in 1..Len(call[c].attempts) :
            call[c].attempts[i].outcome = "ok" =>
                /\ i = Len(call[c].attempts)
                /\ call[c].pc = "done"
                /\ call[c].exec.kind = "return"
                /\ call[c].exec.provider = call[c].attempts[i].key
                /\ call[c].exec.responseTime \in Nat
                /\ call[c].result = call[c].exec

\* alpha answered at once; beta, later in the order, was neither attempted nor
\* its record touched
ShortCircuitWitness ==
    \E c \in Finished :
        /\ providersList = <<"alpha", "beta">>
        /\ Len(call[c].attempts) = 1
        /\ call[c].attempts[1].key = "alpha"
        /\ call[c].attempts[1].outcome = "ok"
        /\ call[c].exec.responseTime = 120
        /\ providerHealth["beta"] = InitialHealth

\* C20: no same-provider retry.  No two attempts of one invocation call the same
\* provider key.
NoSameProviderRetry ==
    \A c \in DOMAIN call :
        \A i, j \in 1..Len(call[c].attempts) :
            call[c].attempts[i].key = call[c].attempts[j].key => i = j

\* the key of attempt i of invocation c
AttemptKey(c, i) == call[c].attempts[i].key

\* C21: strict order.  The attempts of one invocation follow the configured order
\* primary, then fallbacks in list order: of two attempts the earlier one is of a
\* provider listed before the later one's, and the call in flight is of a position
\* after the attempted providers', whatever response times are recorded.
StrictOrder ==
    \A c \in DOMAIN call :
        /\ \A i, j \in 1..Len(call[c].attempts) :
              i < j => \E p, q \in 1..Len(providersList) :
                          /\ p < q
                          /\ providersList[p] = AttemptKey(c, i)
                          /\ providersList[q] = AttemptKey(c, j)
        /\ call[c].pc = "calling" =>
              \A i \in 1..Len(call[c].attempts) :
                  \E p \in 1..(call[c].idx - 1) : providersList[p] = AttemptKey(c, i)

\* alpha was attempted before beta although only beta has a recorded response time
StrictOrderWitness ==
    \E c \in Finished :
        /\ providersList = <<"alpha", "beta">>
        /\ Len(call[c].attempts) = 2
        /\ AttemptKey(c, 1) = "alpha"
        /\ AttemptKey(c, 2) = "beta"
        /\ call[c].attempts[2].outcome # "ok"
        /\ providerHealth["alpha"].responseTime = null
        /\ providerHealth["beta"].responseTime = 120

\* C22: attempt, then record.  The step in which an attempt's outcome becomes
\* known records it (status, time of check) for the attempted provider, and the
\* next candidate is chosen, or the list found exhausted, against the records
\* that include this update.
AttemptThenRecord ==
    [][\A c \in DOMAIN call :
          (call[c].pc = "calling" /\ call'[c] # call[c]) =>
              LET key == providersList[call[c].idx]
                  a == call'[c].attempts[Len(call'[c].attempts)]
              IN  /\ Len(call'[c].attempts) = Len(call[c].attempts) + 1
                  /\ a.key = key
                  /\ lastUpdate'.key = key
                  /\ lastUpdate'.at = now
                  /\ lastUpdate'.status = IF a.outcome = "ok" THEN "healthy" ELSE "error"
                  /\ providerHealth'[key].status = lastUpdate'.status
                  /\ providerHealth'[key].lastCheck = now
                  /\ a.outcome # "ok" =>
                        IF NextCandidate(providerHealth', now, call[c].idx + 1) = 0
                          THEN call'[c].pc = "done"
                          ELSE /\ call'[c].pc = "calling"
                               /\ call'[c].idx =
                                     NextCandidate(providerHealth', now, call[c].idx + 1)]_vars

\* alpha is listed twice in a row: its failure was recorded before the second entry
\* was tested, so the second entry was skipped
AttemptThenRecordWitness ==
    \E c \in Finished :
        /\ providersList = <<"gamma", "alpha", "alpha">>
        /\ Len(call[c].attempts) = 1
        /\ call[c].attempts[1].outcome # "ok"
        /\ call[c].exec.kind = "throw"
        /\ providerHealth["alpha"].status = "error"

\* C23: sequential attempts.  An invocation waiting for a provider call has
\* attempted only providers before the one in flight and all those attempts have
\* failed; the call in flight changes only when it fails, to a later candidate.
SequentialAttempts ==
    /\ [](\A c \in DOMAIN call :
             call[c].pc = "calling" =>
                 /\ call[c].idx \in 1..Len(providersList)
                 /\ Len(call[c].attempts) < call[c].idx
                 /\ \A i \in 1..Len(call[c].attempts) : call[c].attempts[i].outcome # "ok")
    /\ [][\A c \in DOMAIN call :
             (call[c].pc = "calling" /\ call'[c].pc = "calling" /\ call'[c] # call[c]) =>
                 /\ call'[c].idx > call[c].idx
                 /\ call'[c].attempts[Len(call'[c].attempts)].key = providersList[call[c].idx]
                 /\ call'[c].attempts[Len(call'[c].attempts)].outcome # "ok"]_vars

\* the call to beta has just been started, after the call to alpha failed
SequentialAttemptsWitness ==
    \E c \in DOMAIN call :
        /\ call[c].pc = "calling"
        /\ providersList = <<"alpha", "beta">>
        /\ call[c].idx = 2
        /\ call[c].startTime = now
        /\ Len(call[c].attempts) = 1
        /\ call[c].attempts[1].outcome = "error"

\* C24: no recorded outcome is lost.  For every provider, errorCount is the
\* number of failures recorded for it, by traffic or by probes, since the last
\* recorded success, and status is the outcome recorded last.
NoLostUpdate ==
    \A k \in providers :
        /\ providerHealth[k].errorCount = recorded[k].failures
        /\ providerHealth[k].status = recorded[k].last

\* two invocations called alpha at the same time and both calls failed: both
\* failures are counted
NoLostUpdateWitness ==
    \E c, d \in DOMAIN call :
        /\ c # d
        /\ Len(call[c].attempts) >= 1
        /\ Len(call[d].attempts) >= 1
        /\ AttemptKey(c, 1) = "alpha"
        /\ AttemptKey(d, 1) = "alpha"
        /\ call[c].attempts[1].errorCount = 1
        /\ call[d].attempts[1].prevErrorCount = 1
        /\ call[d].attempts[1].errorCount = 2
        /\ recorded["alpha"].failures = 2
        /\ providerHealth["alpha"].errorCount = 2

\* C25: a malformed upstream response is a provider call error.  An attempt that
\* ended with a malformed body is recorded as a failure (status error, errorCount
\* one more), the result of the invocation is never that attempt's, and the step
\* leaves the health records and the loop where a call error leaves them.
MalformedIsFailure ==
    /\ [](\A c \in DOMAIN call :
             \A i \in 1..Len(call[c].attempts) :
                 call[c].attempts[i].outcome = "malformed" =>
                     /\ call[c].attempts[i].status = "error"
                     /\ call[c].attempts[i].errorCount = call[c].attempts[i].prevErrorCount + 1
                     /\ (call[c].pc = "done" /\ call[c].exec.kind = "return") =>
                            /\ i < Len(call[c].attempts)
                            /\ call[c].exec.provider = AttemptKey(c, Len(call[c].attempts))
                     /\ (call[c].pc = "done" /\ call[c].exec.kind = "throw") =>
                            /\ call[c].result.error
                            /\ call[c].result.provider = "none")
    /\ [][\A c \in DOMAIN call :
             (/\ call[c].pc = "calling"
              /\ call'[c] # call[c]
              /\ call'[c].attempts[Len(call'[c].attempts)].outcome = "malformed") =>
                 /\ providerHealth' =
                        updateProviderHealth(providerHealth, now,
                                             providersList[call[c].idx], "error", null)
                 /\ call'[c].idx = NextCandidate(providerHealth', now, call[c].idx + 1)
                 /\ call'[c].lastError # NoError]_vars

\* alpha answered with a malformed body and beta answered the invocation
MalformedIsFailureWitness ==
    \E c \in Finished :
        /\ Len(call[c].attempts) = 2
        /\ AttemptKey(c, 1) = "alpha"
        /\ call[c].attempts[1].outcome = "malformed"
        /\ call[c].attempts[2].outcome = "ok"
        /\ call[c].result.provider = "beta"
        /\ call[c].result.text = ProviderReply("beta").text
        /\ providerHealth["alpha"].status = "error"

\* C26: health records are well formed.  status is unknown, healthy or error;
\* unknown goes with errorCount 0 and no lastCheck, healthy with errorCount 0 and
\* a lastCheck, error with errorCount >= 1 and a lastCheck; a record that has
\* left unknown never returns to it.
HealthWellFormed ==
    /\ [](\A k \in DOMAIN providerHealth :
             LET h == providerHealth[k]
             IN  /\ h.status \in {"unknown", "healthy", "error"}
                 /\ h.status = "unknown" => (h.errorCount = 0 /\ h.lastCheck = null)
                 /\ h.status = "healthy" => (h.errorCount = 0 /\ h.lastCheck # null)
                 /\ h.status = "error" => (h.errorCount >= 1 /\ h.lastCheck # null))
    /\ [][\A k \in DOMAIN providerHealth :
             providerHealth[k].status # "unknown" => providerHealth'[k].status # "unknown"]_vars

\* alpha has failed twice, beta is healthy
HealthWellFormedWitness ==
    /\ providers = {"alpha", "beta"}
    /\ providerHealth["alpha"].status = "error"
    /\ providerHealth["alpha"].errorCount = 2
    /\ providerHealth["beta"].status = "healthy"
    /\ providerHealth["beta"].lastCheck # null

\* C27: the error-count ceiling has no influence.  A provider is eligible exactly
\* when its status is healthy or unknown or its last check is more than
\* healthCheckTimeout old; with status error only the age of the last check
\* decides, so one recorded failure already excludes it.
CeilingWithoutInfluence ==
    \A k \in providers :
        LET h == providerHealth[k]
            age == now - (IF h.lastCheck = null THEN 0 ELSE h.lastCheck)
        IN  /\ isProviderHealthy(k) <=>
                  (h.status \in {"healthy", "unknown"} \/ age > healthCheckTimeout)
            /\ h.status = "error" => (isProviderHealthy(k) <=> age > healthCheckTimeout)
            /\ (h.status = "error" /\ h.errorCount = 1 /\ age <= healthCheckTimeout) =>
                  Skipped(providerHealth, now, k)

\* after one failure of alpha, the only provider, an invocation has attempted nothing
CeilingWithoutInfluenceWitness ==
    \E c \in Finished :
        /\ providers = {"alpha"}
        /\ primaryProvider = "alpha"
        /\ call[c].attempts = <<>>
        /\ providerHealth["alpha"].status = "error"
        /\ providerHealth["alpha"].errorCount = 1
        /\ providerHealth["alpha"].errorCount < maxErrorCount

\* C28: skipping is free of side effects.  The candidates a step of an
\* invocation passes over are unregistered or ineligible; none of them is added
\* to the attempts and none of their records changes; the candidate it calls is
\* registered and eligible; the start of an invocation changes no record at all.
SkippingIsFree ==
    [][\A c \in DOMAIN call :
          (call'[c] # call[c] /\ call'[c].pc # "idle") =>
              LET first == IF call[c].pc = "idle" THEN 1 ELSE call[c].idx + 1
                  last == IF call'[c].pc = "calling" THEN call'[c].idx - 1
                          ELSE IF call'[c].exec.kind = "return" THEN first - 1
                          ELSE Len(providersList)
                  called == IF call[c].pc = "calling" THEN {providersList[call[c].idx]}
                            ELSE {}
              IN  /\ \A p \in first..last :
                        /\ \/ providersList[p] \notin providers
                           \/ ~isProviderHealthyAt(providerHealth', now, providersList[p])
                        /\ providersList[p] \in providers \ called =>
                              providerHealth'[providersList[p]] =
                                  providerHealth[providersList[p]]
                  /\ Len(call'[c].attempts) = Len(call[c].attempts) + Cardinality(called)
                  /\ call[c].pc = "idle" => providerHealth' = providerHealth
                  /\ call'[c].pc = "calling" =>
                        /\ providersList[call'[c].idx] \in providers
                        /\ isProviderHealthyAt(providerHealth', now,
                                               providersList[call'[c].idx])]_vars

\* an invocation has passed over alpha and beta, both in error: no attempt, and
\* the records are those of earlier checks
SkippingIsFreeWitness ==
    \E c \in Finished :
        /\ providers = {"alpha", "beta"}
        /\ call[c].attempts = <<>>
        /\ call[c].exec.kind = "throw"
        /\ providerHealth["alpha"].status = "error"
        /\ providerHealth["beta"].status = "error"
        /\ providerHealth["alpha"].lastCheck < now
        /\ providerHealth["beta"].lastCheck < now

\* C29: only registered providers are called.  Every attempt, the call in
\* flight, every probe of a round and the provider of every success result is of
\* a registered key, also when the primary or a fallback is not registered.
OnlyRegisteredCalled ==
    /\ \A i \in 1..Len(probe.queue) : probe.queue[i] \in providers
    /\ \A c \in DOMAIN call :
          /\ \A i \in 1..Len(call[c].attempts) : AttemptKey(c, i) \in providers
          /\ call[c].pc = "calling" => providersList[call[c].idx] \in providers
          /\ (call[c].pc = "done" /\ call[c].exec.kind = "return") =>
                 call[c].result.provider \in providers

\* the primary gamma is not registered; alpha answered, and a probe round is under way
OnlyRegisteredCalledWitness ==
    \E c \in Finished :
        /\ primaryProvider = "gamma"
        /\ "gamma" \notin providers
        /\ call[c].exec.kind = "return"
        /\ call[c].result.provider = "alpha"
        /\ probe.pc = "probing"

\* C30: termination.  An invocation has issued at most as many provider calls as
\* the list [primary, ...fallbacks] has entries, the call in flight included;
\* given that every provider call settles, an invocation that waits for a
\* provider call eventually returns or fails.
Termination ==
    /\ [](\A c \in DOMAIN call :
             Len(call[c].attempts) + (IF call[c].pc = "calling" THEN 1 ELSE 0)
                 <= Len(providersList))
    /\ \A c \in Callers : (call[c].pc = "calling") ~> (call[c].pc = "done")

\* an invocation has failed after calling both entries of the list
TerminationWitness ==
    \E c \in Finished :
        /\ Len(providersList) = 2
        /\ Len(call[c].attempts) = 2
        /\ call[c].exec.kind = "throw"

====
